---------------------------- MODULE Spec2Model ----------------------------
(***************************************************************************)
(* A model of kminion's minion.Service (src/minion/service.go):            *)
(*   - the TTL cache (getCachedItem / setCachedItem / deleteCachedItem),    *)
(*     its RWMutex and the sleep-then-delete goroutine of every Set;        *)
(*   - population coalescing on top of it (requestGroup);                   *)
(*   - the end-to-end metric handlers onAck / onRoundtrip / onOffsetCommit; *)
(*   - Start and its compatibility gate ensureCompatibility.                *)
(* Time is a discrete clock `now`; one tick is the unit of every duration.  *)
(***************************************************************************)
EXTENDS Integers, Sequences, FiniteSets, Bags, TLC

\* ------------------------------------------------------------------ bounds
MaxTime == 3        \* the clock runs over 0..MaxTime
MaxSets == 2        \* setCachedItem calls (hence expiry goroutines) per run
MaxDuration == 3    \* event durations are 0..MaxDuration ticks
MaxMsgs == 2        \* canary messages per run
MaxReplays == 1     \* repeated roundtrip deliveries per run
MaxLatency == 5000  \* createHistogramBuckets is called with 0..MaxLatency ms
Millisecond == 2    \* ticks of a time.Duration in one millisecond

\* --------------------------------------------------------------- constants
Clients == {1, 2}                \* goroutines calling into the cache
Callers == 1..MaxSets            \* goroutines calling GetOrPopulate, once each
Err == "error"                   \* the populate function failed
PopTTLs == {1}                   \* the ttl a GetOrPopulate call site passes
Keys == {"k1", "k2"}
Values == {"v1", "v2"}
NoVal == "absent"                \* the key is not in the map
None == <<"none", 0>>            \* nobody holds the write lock
TTLs == {0, 1, 2}                 \* timeouts passed to setCachedItem

VARIABLES
  now,          \* wall clock
  cache,        \* Service.cache: key -> value, NoVal when the key is absent
  cacheLock,    \* Service.cacheLock: [w: the writer or None, r: the readers]
  client,       \* per calling goroutine: its position in the call it runs
  tasks,        \* the bag of live goroutines spawned by setCachedItem
  nextTask,     \* the number of goroutines spawned so far, plus one
  latest        \* history: per key, the last value a Set installed, the
                \* time its ttl ends and whether an older Set's expiry was
                \* still to come; NoPromise once that time is reached

VARIABLES
  flight,       \* requestGroup: per key, the call in flight (0: none)
  calls,        \* the result of every call of requestGroup, "pending" before
  nextCall,     \* the number of calls started so far, plus one
  popCount,     \* history: per key, how often the populate function ran
  serial        \* history: a GetOrPopulate was called after another returned

VARIABLES
  Cfg,                        \* Service.Cfg: the flags and SLAs the code reads
  endToEndMessagesAcked,      \* counters
  endToEndMessagesReceived,
  endToEndMessagesCommitted,
  endToEndAckLatency,         \* histograms: the bag of observed values
  endToEndRoundtripLatency,
  endToEndCommitLatency,
  msg,          \* the bag of canary messages: the stage of each and how
                \* its roundtrip ended
  ev            \* history: the last handler call, numbered

VARIABLES
  pc,           \* where Start is
  elapsed,      \* seconds since ensureCompatibility made its context
  query,        \* how the ApiVersions request ended: ok, failed or timeout
  versions,     \* kversion.Versions of the response: key -> max version
  gateErr,      \* what ensureCompatibility returned
  startErr,     \* what Start returned
  launched,     \* how often each background task was started with `go`
  cfg0          \* history: Cfg as it was when Start was called

VARIABLES
  maxLatency,   \* createHistogramBuckets: its argument, a time.Duration
  latencyCount, \* the float64 of math.Logb
  count,        \* the int passed to prometheus.ExponentialBuckets
  bucket,       \* the buckets made, upper bounds as durations
  bpc           \* where createHistogramBuckets is

cacheVars == <<now, cache, cacheLock, client, tasks, nextTask, latest>>
popVars == <<flight, calls, nextCall, popCount, serial>>
metricVars == <<endToEndMessagesAcked, endToEndMessagesReceived,
                endToEndMessagesCommitted, endToEndAckLatency,
                endToEndRoundtripLatency, endToEndCommitLatency>>
e2eVars == <<metricVars, msg, ev>>
startVars == <<pc, elapsed, query, versions, gateErr, startErr, launched, cfg0>>
bucketVars == <<maxLatency, latencyCount, count, bucket, bpc>>
serviceVars == <<Cfg, e2eVars, startVars, bucketVars>>
vars == <<now, cache, cacheLock, client, tasks, nextTask, latest,
          flight, calls, nextCall, popCount, serial,
          Cfg, metricVars, msg, ev,
          pc, elapsed, query, versions, gateErr, startErr, launched, cfg0,
          maxLatency, latencyCount, count, bucket, bpc>>

\* ------------------------------------------------------------------ cache
IdleClient == [pc |-> "idle", op |-> "none", key |-> "k1", val |-> NoVal,
               ret |-> NoVal, found |-> FALSE, exp |-> NoVal, ttl |-> 0,
               joined |-> 0]

NoPromise == [val |-> NoVal, deadline |-> 0, renewed |-> FALSE]

C(c) == <<"client", c>>
T(t) == <<"task", 0>>            \* an expiry goroutine (at most one holds the lock)

\* sync.RWMutex: Lock needs no writer and no reader, RLock needs no writer.
CanLock == cacheLock.w = None /\ cacheLock.r = {}
CanRLock == cacheLock.w = None
Lock(h) == [cacheLock EXCEPT !.w = h]
Unlock == [cacheLock EXCEPT !.w = None]
RLock(h) == [cacheLock EXCEPT !.r = @ \cup {h}]
RUnlock(h) == [cacheLock EXCEPT !.r = @ \ {h}]

\* val, exists := s.cache[key]
MapLookup(m, key) == [val |-> m[key], found |-> m[key] # NoVal]
\* s.cache[key] = val
MapStore(m, key, val) == [m EXCEPT ![key] = val]
\* delete(s.cache, key)
MapDelete(m, key) == [m EXCEPT ![key] = NoVal]

\* The value the contract promises a Get of k to find right now, if any.
Promised(k) == IF now < latest[k].deadline THEN latest[k].val ELSE NoVal
\* The expiry goroutines of key k that have not deleted yet.
Pending(k) == {t \in BagToSet(tasks) :
                 t.key = k /\ t.st \in {"spawned", "sleeping", "locking"}}
\* One goroutine of the bag takes a step from t to u; u = t ends it.
Step(t, u) == IF u = t THEN tasks (-) SetToBag({t})
              ELSE (tasks (-) SetToBag({t})) (+) SetToBag({u})

\* The parts of the service a specification leaves at rest.
Nil == <<>>                      \* a nil error
DefaultCfg == [LogDirsEnabled |-> TRUE, ScrapeMode |-> "offsetsTopic",
               EndToEndEnabled |-> TRUE, AckSla |-> 1, RoundtripSla |-> 1,
               CommitSla |-> 1]
NoEvent == [n |-> 0, kind |-> "none", d |-> 0, rt |-> "none"]
Produced == [stage |-> "Produced", rt |-> "none"]

E2EIdle ==
  /\ endToEndMessagesAcked = 0
  /\ endToEndMessagesReceived = 0
  /\ endToEndMessagesCommitted = 0
  /\ endToEndAckLatency = EmptyBag
  /\ endToEndRoundtripLatency = EmptyBag
  /\ endToEndCommitLatency = EmptyBag
  /\ msg = (Produced :> MaxMsgs)
  /\ ev = NoEvent

StartIdle ==
  /\ pc = "idle"
  /\ elapsed = 0
  /\ query = "none"
  /\ versions = <<>>
  /\ gateErr = Nil
  /\ startErr = Nil
  /\ launched = [offsets |-> 0, endToEnd |-> 0]
  /\ cfg0 = Cfg

Finite(x) == [negInf |-> FALSE, val |-> x]   \* a float64 that is a whole number
BucketIdle ==
  /\ maxLatency = 0
  /\ latencyCount = Finite(0)
  /\ count = 0
  /\ bucket = <<>>
  /\ bpc = "idle"

CacheIdle ==
  /\ now = 0
  /\ cache = [k \in Keys |-> NoVal]
  /\ cacheLock = [w |-> None, r |-> {}]
  /\ client = [c \in Clients |-> IdleClient]
  /\ tasks = EmptyBag
  /\ nextTask = 1
  /\ latest = [k \in Keys |-> NoPromise]

PopIdle ==
  /\ flight = [k \in Keys |-> 0]
  /\ calls = [i \in Callers |-> "pending"]
  /\ nextCall = 1
  /\ popCount = [k \in Keys |-> 0]
  /\ serial = FALSE

CacheInit == CacheIdle

\* A getCachedItem that reads the map without taking the read lock.
GetItem_unlocked(c, k, from) ==
  /\ LET r == MapLookup(cache, k) IN
     client' = [client EXCEPT ![c] = [from EXCEPT !.pc = "getRUnlock",
                    !.key = k, !.ret = r.val, !.found = r.found,
                    !.exp = Promised(k)]]
  /\ UNCHANGED <<now, cache, cacheLock, tasks, nextTask, latest>>

\* --- getCachedItem: RLock, read the map; then (deferred) RUnlock and return.
\* `from` is the caller's record as it enters.
GetItem(c, k, from) ==
  /\ CanRLock
  /\ cacheLock' = RLock(C(c))
  /\ LET r == MapLookup(cache, k) IN
     client' = [client EXCEPT ![c] = [from EXCEPT !.pc = "getRUnlock",
                    !.key = k, !.ret = r.val, !.found = r.found,
                    !.exp = Promised(k)]]
  /\ UNCHANGED <<now, cache, tasks, nextTask, latest>>

getCachedItem(c, k) ==
  /\ client[c].pc = "idle"
  /\ GetItem(c, k, [IdleClient EXCEPT !.op = "get"])
  /\ UNCHANGED <<popVars, serviceVars>>

\* The caller after getCachedItem returned (val, exists).
AfterGet(cl) ==
  IF cl.op = "get" THEN IdleClient
  ELSE IF cl.found THEN [cl EXCEPT !.pc = "done", !.exp = NoVal]
  ELSE [cl EXCEPT !.pc = "do", !.exp = NoVal]

getCachedItemReturn(c) ==
  /\ client[c].pc = "getRUnlock"
  /\ cacheLock' = RUnlock(C(c))
  /\ client' = [client EXCEPT ![c] = AfterGet(client[c])]
  /\ UNCHANGED <<now, cache, tasks, nextTask, latest>>
  /\ UNCHANGED <<popVars, serviceVars>>

\* --- setCachedItem: Lock, spawn the expiry goroutine
\*       go func() { time.Sleep(timeout); s.deleteCachedItem(key) }()
\*     then write the map, then (deferred) Unlock and return.
SetItem(c, k, v, ttl, from) ==
  /\ nextTask <= MaxSets
  /\ now + ttl <= MaxTime
  /\ CanLock
  /\ cacheLock' = Lock(C(c))
  /\ tasks' = tasks (+) SetToBag({[st |-> "spawned", key |-> k,
                                    timeout |-> ttl, wakeAt |-> 0]})
  /\ nextTask' = nextTask + 1
  /\ client' = [client EXCEPT ![c] = [from EXCEPT !.pc = "setWrite",
                                       !.key = k, !.val = v]]
  /\ latest' = [latest EXCEPT ![k] =
                  IF now < now + ttl
                  THEN [val |-> v, deadline |-> now + ttl,
                        renewed |-> Pending(k) # {}]
                  ELSE NoPromise]
  /\ UNCHANGED <<now, cache>>

setCachedItem(c, k, v, ttl) ==
  /\ client[c].pc = "idle"
  /\ SetItem(c, k, v, ttl, [IdleClient EXCEPT !.op = "set"])
  /\ UNCHANGED <<popVars, serviceVars>>

\* The caller after setCachedItem returned.
AfterSet(cl) ==
  IF cl.op = "set" THEN IdleClient
  ELSE [cl EXCEPT !.pc = "doEnd", !.ret = cl.val, !.val = NoVal]

setCachedItemWrite(c) ==
  /\ client[c].pc = "setWrite"
  /\ cache' = MapStore(cache, client[c].key, client[c].val)
  /\ cacheLock' = Unlock
  /\ client' = [client EXCEPT ![c] = AfterSet(client[c])]
  /\ UNCHANGED <<now, tasks, nextTask, latest>>
  /\ UNCHANGED <<popVars, serviceVars>>

\* --- the goroutine of a Set: time.Sleep(timeout), then deleteCachedItem(key)
\* time.Sleep returns no earlier than timeout after it was called.
WakeTime(t) == now + t.timeout

TaskSleep(t) ==
  /\ t.st = "spawned"
  /\ tasks' = Step(t, [t EXCEPT !.st = "sleeping", !.wakeAt = WakeTime(t)])
  /\ UNCHANGED <<now, cache, cacheLock, client, nextTask, latest>>
  /\ UNCHANGED <<popVars, serviceVars>>

\* An expiry that leaves the map as it is.
ExpiryDelete_noop(m, t) == m

\* The key the expiry deletes: unconditionally, whoever installed it.
ExpiryDelete(m, t) == MapDelete(m, t.key)

\* --- deleteCachedItem, run by the goroutine once its sleep is over:
\*     Lock, delete the key; then (deferred) Unlock.
deleteCachedItem(t) ==
  /\ t.st = "sleeping"
  /\ now >= t.wakeAt
  /\ CanLock
  /\ cacheLock' = Lock(T(t))
  /\ cache' = ExpiryDelete(cache, t)
  /\ tasks' = Step(t, [t EXCEPT !.st = "delUnlock", !.wakeAt = 0, !.timeout = 0])
  /\ UNCHANGED <<now, client, nextTask, latest>>
  /\ UNCHANGED <<popVars, serviceVars>>

deleteCachedItemReturn(t) ==
  /\ t.st = "delUnlock"
  /\ cacheLock' = Unlock
  /\ tasks' = Step(t, t)
  /\ UNCHANGED <<now, cache, client, nextTask, latest>>
  /\ UNCHANGED <<popVars, serviceVars>>

\* The clock. It stops at MaxTime, and it waits for a goroutine that has not
\* started its sleep when the sleep would otherwise end beyond MaxTime.
Tick ==
  /\ now < MaxTime
  /\ \A t \in BagToSet(tasks) : t.st = "spawned" => now + 1 + t.timeout <= MaxTime
  /\ \A c \in DOMAIN client :
       client[c].pc \in {"getRUnlock", "do", "fn", "popSet"}
         => now + 1 + client[c].ttl <= MaxTime
  /\ now' = now + 1
  /\ latest' = [k \in Keys |-> IF now + 1 < latest[k].deadline THEN latest[k]
                                ELSE NoPromise]
  /\ UNCHANGED <<cache, cacheLock, client, tasks, nextTask>>
  /\ UNCHANGED <<popVars, serviceVars>>

CacheNext ==
  \/ \E c \in Clients, k \in Keys : getCachedItem(c, k)
  \/ \E c \in Clients : getCachedItemReturn(c)
  \/ \E c \in Clients, k \in Keys, v \in Values, ttl \in TTLs : setCachedItem(c, k, v, ttl)
  \/ \E c \in Clients : setCachedItemWrite(c)
  \/ \E t \in BagToSet(tasks) : TaskSleep(t)
  \/ \E t \in BagToSet(tasks) : deleteCachedItem(t)
  \/ \E t \in BagToSet(tasks) : deleteCachedItemReturn(t)
  \/ Tick

Init == CacheInit /\ PopIdle /\ Cfg = DefaultCfg /\ E2EIdle /\ StartIdle /\ BucketIdle
Next == CacheNext
Spec == Init /\ [][Next]_vars

\* --- the cache under a fair scheduler. A goroutine blocked in Lock keeps
\* new readers out (sync.RWMutex: "a blocked Lock call excludes new readers
\* from acquiring the lock"), so Lock is two steps here: the call, after
\* which the goroutine waits, and the acquisition.
WriterWaiting == \E t \in BagToSet(tasks) : t.st = "locking"

\* s.cacheLock.RLock() with a writer waiting blocks.
getCachedItemQueued(c, k) ==
  /\ ~WriterWaiting
  /\ getCachedItem(c, k)

\* The sleep is over: deleteCachedItem is called and calls Lock.
deleteCachedItemLock(t) ==
  /\ t.st = "sleeping"
  /\ now >= t.wakeAt
  /\ tasks' = Step(t, [t EXCEPT !.st = "locking"])
  /\ UNCHANGED <<now, cache, cacheLock, client, nextTask, latest>>
  /\ UNCHANGED <<popVars, serviceVars>>

\* Lock is acquired; delete the key.
deleteCachedItemLocked(t) ==
  /\ t.st = "locking"
  /\ CanLock
  /\ cacheLock' = Lock(T(t))
  /\ cache' = ExpiryDelete(cache, t)
  /\ tasks' = Step(t, [t EXCEPT !.st = "delUnlock", !.wakeAt = 0, !.timeout = 0])
  /\ UNCHANGED <<now, client, nextTask, latest>>
  /\ UNCHANGED <<popVars, serviceVars>>

\* Which value is set, and which key a reader looks up, make no difference
\* to when the map is empty; a ttl is none or some.
FairValues == {"v1"}
FairGets == {"k1"}
FairTTLs == {0, 1}

FairNext ==
  \/ \E c \in Clients, k \in FairGets : getCachedItemQueued(c, k)
  \/ \E c \in Clients : getCachedItemReturn(c)
  \/ \E c \in Clients, k \in Keys, v \in FairValues, ttl \in FairTTLs : setCachedItem(c, k, v, ttl)
  \/ \E c \in Clients : setCachedItemWrite(c)
  \/ \E t \in BagToSet(tasks) : TaskSleep(t)
  \/ \E t \in BagToSet(tasks) : deleteCachedItemLock(t)
  \/ \E t \in BagToSet(tasks) : deleteCachedItemLocked(t)
  \/ \E t \in BagToSet(tasks) : deleteCachedItemReturn(t)
  \/ Tick

\* The scheduler runs every goroutine that can run, and time passes.
Fairness ==
  /\ WF_vars(\E c \in Clients : getCachedItemReturn(c))
  /\ WF_vars(\E c \in Clients : setCachedItemWrite(c))
  /\ WF_vars(\E t \in BagToSet(tasks) : TaskSleep(t))
  /\ WF_vars(\E t \in BagToSet(tasks) : deleteCachedItemLock(t))
  /\ WF_vars(\E t \in BagToSet(tasks) : deleteCachedItemLocked(t))
  /\ WF_vars(\E t \in BagToSet(tasks) : deleteCachedItemReturn(t))
  /\ WF_vars(Tick)
FairSpec == Init /\ [][FairNext]_vars /\ Fairness

\* ------------------------------------------------- population coalescing
\* GetOrPopulate(key, ttl, populateFn): look the key up; on a miss run
\* populateFn through requestGroup, which lets one call per key run at a
\* time and hands its result to every caller that arrives while it runs;
\* a value (not an error) is stored with setCachedItem before the call ends.
PopValues == {"v1"}               \* what populateFn can yield
Results == PopValues \cup {Err}

\* The callers running the populate path of key k as the owner of a call.
Populating(k) ==
  {c \in DOMAIN client : client[c].op = "gop" /\ client[c].key = k
                          /\ client[c].pc \in {"fn", "popSet", "setWrite", "doEnd"}}

GetOrPopulate(c, k, ttl) ==
  /\ client[c].pc = "idle"
  /\ now + ttl <= MaxTime
  /\ GetItem(c, k, [IdleClient EXCEPT !.op = "gop", !.ttl = ttl])
  /\ serial' = (serial \/ \E d \in DOMAIN client : client[d].pc = "done")
  /\ UNCHANGED <<flight, calls, nextCall, popCount>>
  /\ UNCHANGED serviceVars

\* A requestGroup that never finds a call in flight.
JoinsFlight_never(k) == FALSE

\* requestGroup.Do(key, fn): a call for key is in flight, to be joined.
JoinsFlight(k) == flight[k] # 0

Do(c) ==
  /\ client[c].pc = "do"
  /\ LET k == client[c].key IN
     IF JoinsFlight(k)
     THEN /\ client' = [client EXCEPT ![c].pc = "wait", ![c].joined = flight[k]]
          /\ UNCHANGED <<flight, nextCall>>
     ELSE /\ client' = [client EXCEPT ![c].pc = "fn", ![c].joined = nextCall]
          /\ flight' = [flight EXCEPT ![k] = nextCall]
          /\ nextCall' = nextCall + 1
  /\ UNCHANGED <<calls, popCount, serial>>
  /\ UNCHANGED serviceVars
  /\ UNCHANGED <<now, cache, cacheLock, tasks, nextTask, latest>>

\* populateFn runs (the upstream request) and yields a value or an error.
Populate(c, r) ==
  /\ client[c].pc = "fn"
  /\ popCount' = [popCount EXCEPT ![client[c].key] = @ + 1]
  /\ client' = [client EXCEPT ![c] =
                  IF r = Err THEN [@ EXCEPT !.pc = "doEnd", !.ret = Err]
                  ELSE [@ EXCEPT !.pc = "popSet", !.val = r]]
  /\ UNCHANGED <<flight, calls, nextCall, serial>>
  /\ UNCHANGED serviceVars
  /\ UNCHANGED <<now, cache, cacheLock, tasks, nextTask, latest>>

\* The value is cached: setCachedItem(key, value, ttl).
PopulateSet(c) ==
  /\ client[c].pc = "popSet"
  /\ SetItem(c, client[c].key, client[c].val, client[c].ttl, client[c])
  /\ UNCHANGED <<popVars, serviceVars>>

\* The call ends: its result is published and the key leaves the group.
DoEnd(c) ==
  /\ client[c].pc = "doEnd"
  /\ calls' = [calls EXCEPT ![client[c].joined] = client[c].ret]
  /\ flight' = [flight EXCEPT ![client[c].key] = 0]
  /\ client' = [client EXCEPT ![c].pc = "done"]
  /\ UNCHANGED <<nextCall, popCount, serial>>
  /\ UNCHANGED serviceVars
  /\ UNCHANGED <<now, cache, cacheLock, tasks, nextTask, latest>>

\* A caller that joined a call returns that call's result once it is there.
Wait(c) ==
  /\ client[c].pc = "wait"
  /\ calls[client[c].joined] # "pending"
  /\ client' = [client EXCEPT ![c].pc = "done", ![c].ret = calls[client[c].joined]]
  /\ UNCHANGED <<popVars, serviceVars>>
  /\ UNCHANGED <<now, cache, cacheLock, tasks, nextTask, latest>>

PopInit ==
  /\ now = 0
  /\ cache = [k \in Keys |-> NoVal]
  /\ cacheLock = [w |-> None, r |-> {}]
  /\ client = [c \in Callers |-> IdleClient]
  /\ tasks = EmptyBag
  /\ nextTask = 1
  /\ latest = [k \in Keys |-> NoPromise]
  /\ PopIdle
  /\ Cfg = DefaultCfg /\ E2EIdle /\ StartIdle /\ BucketIdle

PopNext ==
  \/ \E c \in Callers, k \in Keys, ttl \in PopTTLs : GetOrPopulate(c, k, ttl)
  \/ \E c \in Callers : getCachedItemReturn(c)
  \/ \E c \in Callers : Do(c)
  \/ \E c \in Callers, r \in Results : Populate(c, r)
  \/ \E c \in Callers : PopulateSet(c)
  \/ \E c \in Callers : setCachedItemWrite(c)
  \/ \E c \in Callers : DoEnd(c)
  \/ \E c \in Callers : Wait(c)
  \/ \E t \in BagToSet(tasks) : TaskSleep(t)
  \/ \E t \in BagToSet(tasks) : deleteCachedItem(t)
  \/ \E t \in BagToSet(tasks) : deleteCachedItemReturn(t)
  \/ Tick

PopSpec == PopInit /\ [][PopNext]_vars

\* ------------------------------------------------------ end-to-end metrics
Second == 2                      \* ticks in one second
Durations == 0..MaxDuration
SLAs == {1, 2}                   \* configured SLAs, in ticks
Partitions == {0, 1}

\* time.Duration.Seconds(): whole seconds plus the remaining fraction of one,
\* here as <<whole seconds, remaining ticks>>.
Seconds(d) == <<d \div Second, d % Second>>

\* prometheus.Counter.Inc and prometheus.Histogram.Observe
Inc(counter) == counter + 1
Observe(hist, x) == hist (+) SetToBag({x})
Observations(hist) == BagCardinality(hist)

\* An ack handler that counts only acks within the SLA.
onAck_gated(partitionId, duration) ==
  /\ endToEndMessagesAcked' =
       IF duration > Cfg.AckSla THEN endToEndMessagesAcked
       ELSE Inc(endToEndMessagesAcked)
  /\ endToEndAckLatency' = Observe(endToEndAckLatency, Seconds(duration))
  /\ UNCHANGED <<endToEndMessagesReceived, endToEndMessagesCommitted,
                 endToEndRoundtripLatency, endToEndCommitLatency>>

\* called from e2e when a message is acknowledged
onAck(partitionId, duration) ==
  /\ endToEndMessagesAcked' = Inc(endToEndMessagesAcked)
  /\ endToEndAckLatency' = Observe(endToEndAckLatency, Seconds(duration))
  /\ UNCHANGED <<endToEndMessagesReceived, endToEndMessagesCommitted,
                 endToEndRoundtripLatency, endToEndCommitLatency>>

\* A roundtrip handler that also drops a message exactly on the SLA.
onRoundtrip_dropsAtSla(partitionId, duration) ==
  IF duration >= Cfg.RoundtripSla
  THEN UNCHANGED metricVars
  ELSE /\ endToEndMessagesReceived' = Inc(endToEndMessagesReceived)
       /\ endToEndRoundtripLatency' = Observe(endToEndRoundtripLatency, Seconds(duration))
       /\ UNCHANGED <<endToEndMessagesAcked, endToEndMessagesCommitted,
                      endToEndAckLatency, endToEndCommitLatency>>

\* A roundtrip handler that observes before it checks the SLA.
onRoundtrip_observesFirst(partitionId, duration) ==
  /\ endToEndRoundtripLatency' = Observe(endToEndRoundtripLatency, Seconds(duration))
  /\ endToEndMessagesReceived' =
       IF duration > Cfg.RoundtripSla THEN endToEndMessagesReceived
       ELSE Inc(endToEndMessagesReceived)
  /\ UNCHANGED <<endToEndMessagesAcked, endToEndMessagesCommitted,
                 endToEndAckLatency, endToEndCommitLatency>>

\* A roundtrip handler that rejects an event once a message has matched:
\*   if msg.Timestamp < s.lastRoundtripTimestamp { return }
onRoundtrip_rejectsSeen(partitionId, duration) ==
  IF duration > Cfg.RoundtripSla \/ \E m \in BagToSet(msg) : m.rt = "matched"
  THEN UNCHANGED metricVars
  ELSE /\ endToEndMessagesReceived' = Inc(endToEndMessagesReceived)
       /\ endToEndRoundtripLatency' = Observe(endToEndRoundtripLatency, Seconds(duration))
       /\ UNCHANGED <<endToEndMessagesAcked, endToEndMessagesCommitted,
                      endToEndAckLatency, endToEndCommitLatency>>

\* called from e2e when a message completes a roundtrip
onRoundtrip(partitionId, duration) ==
  IF duration > Cfg.RoundtripSla
  THEN UNCHANGED metricVars       \* message is too old
  ELSE /\ endToEndMessagesReceived' = Inc(endToEndMessagesReceived)
       /\ endToEndRoundtripLatency' = Observe(endToEndRoundtripLatency, Seconds(duration))
       /\ UNCHANGED <<endToEndMessagesAcked, endToEndMessagesCommitted,
                      endToEndAckLatency, endToEndCommitLatency>>

\* A commit handler that checks the SLA before it observes.
onOffsetCommit_checksFirst(partitionId, duration) ==
  IF duration > Cfg.CommitSla
  THEN UNCHANGED metricVars
  ELSE /\ endToEndCommitLatency' = Observe(endToEndCommitLatency, Seconds(duration))
       /\ endToEndMessagesCommitted' = Inc(endToEndMessagesCommitted)
       /\ UNCHANGED <<endToEndMessagesAcked, endToEndMessagesReceived,
                      endToEndAckLatency, endToEndRoundtripLatency>>

\* called from e2e when an offset commit is confirmed
onOffsetCommit(partitionId, duration) ==
  /\ endToEndCommitLatency' = Observe(endToEndCommitLatency, Seconds(duration))
  /\ endToEndMessagesCommitted' =
       IF duration > Cfg.CommitSla THEN endToEndMessagesCommitted
       ELSE Inc(endToEndMessagesCommitted)
  /\ UNCHANGED <<endToEndMessagesAcked, endToEndMessagesReceived,
                 endToEndAckLatency, endToEndRoundtripLatency>>

\* The pipeline that calls the handlers, per canary message:
\*   Produced -> Acked -> {RoundtripMatched | RoundtripDropped}
\*            -> {Committed | CommitDropped}
\* Late messages are committed to kafka as well (help text of
\* messages_committed_total).
Event(kind, m, d) == [n |-> ev.n + 1, kind |-> kind, d |-> d, rt |-> m.rt]
\* Message m of the bag moves on to be u.
Moves(m, u) == (msg (-) SetToBag({m})) (+) SetToBag({u})

\* The number of canary messages whose stage is one of S.
RECURSIVE CountIn(_, _)
CountIn(S, M) ==
  IF M = {} THEN 0
  ELSE LET m == CHOOSE x \in M : TRUE IN
       (IF m.stage \in S THEN CopiesIn(m, msg) ELSE 0) + CountIn(S, M \ {m})
InStage(S) == CountIn(S, BagToSet(msg))

Ack(m, p, d) ==
  /\ m.stage = "Produced"
  /\ onAck(p, d)
  /\ msg' = Moves(m, [m EXCEPT !.stage = "Acked"])
  /\ ev' = Event("ack", m, d)
  /\ UNCHANGED <<Cfg, cacheVars, popVars, startVars, bucketVars>>

\* A pipeline that delivers a message's roundtrip whatever its stage.
Roundtrip_unordered(m, p, d) ==
  /\ onRoundtrip(p, d)
  /\ msg' = Moves(m, IF d > Cfg.RoundtripSla
                     THEN [stage |-> "RoundtripDropped", rt |-> "dropped"]
                     ELSE [stage |-> "RoundtripMatched", rt |-> "matched"])
  /\ ev' = Event("roundtrip", m, d)
  /\ UNCHANGED <<Cfg, cacheVars, popVars, startVars, bucketVars>>

Roundtrip(m, p, d) ==
  /\ m.stage = "Acked"
  /\ onRoundtrip(p, d)
  /\ msg' = Moves(m, IF d > Cfg.RoundtripSla
                     THEN [stage |-> "RoundtripDropped", rt |-> "dropped"]
                     ELSE [stage |-> "RoundtripMatched", rt |-> "matched"])
  /\ ev' = Event("roundtrip", m, d)
  /\ UNCHANGED <<Cfg, cacheVars, popVars, startVars, bucketVars>>

OffsetCommit(m, p, d) ==
  /\ m.stage \in {"RoundtripMatched", "RoundtripDropped"}
  /\ onOffsetCommit(p, d)
  /\ msg' = Moves(m, [m EXCEPT !.stage =
                        IF d > Cfg.CommitSla THEN "CommitDropped" ELSE "Committed"])
  /\ ev' = Event("commit", m, d)
  /\ UNCHANGED <<Cfg, cacheVars, popVars, startVars, bucketVars>>

E2EInit ==
  /\ Cfg \in [LogDirsEnabled : {TRUE}, ScrapeMode : {"offsetsTopic"},
              EndToEndEnabled : {TRUE}, AckSla : {1}, RoundtripSla : SLAs,
              CommitSla : SLAs]
  /\ E2EIdle
  /\ CacheIdle /\ PopIdle /\ StartIdle /\ BucketIdle

E2ENext ==
  \/ \E m \in BagToSet(msg), p \in Partitions, d \in Durations : Ack(m, p, d)
  \/ \E m \in BagToSet(msg), p \in Partitions, d \in Durations : Roundtrip(m, p, d)
  \/ \E m \in BagToSet(msg), p \in Partitions, d \in Durations : OffsetCommit(m, p, d)

E2ESpec == E2EInit /\ [][E2ENext]_vars

\* --- the same pipeline when the consumer sees a canary message again
\* (a replay, or a delivery out of order). The events of the lifecycle so
\* far, and the deliveries beyond them:
LifecycleEvents ==
  InStage({"Acked"}) + 2 * InStage({"RoundtripMatched", "RoundtripDropped"})
    + 3 * InStage({"Committed", "CommitDropped"})
Replays == ev.n - LifecycleEvents

\* A message whose roundtrip matched is delivered once more.
RoundtripReplay(m, p, d) ==
  /\ m.rt = "matched"
  /\ Replays < MaxReplays
  /\ onRoundtrip(p, d)
  /\ ev' = Event("roundtrip", m, d)
  /\ UNCHANGED msg
  /\ UNCHANGED <<Cfg, cacheVars, popVars, startVars, bucketVars>>

\* One canary message, produced; nothing counted or observed yet.
ReplayInit ==
  /\ Cfg = DefaultCfg
  /\ endToEndMessagesAcked = 0
  /\ endToEndMessagesReceived = 0
  /\ endToEndMessagesCommitted = 0
  /\ endToEndAckLatency = EmptyBag
  /\ endToEndRoundtripLatency = EmptyBag
  /\ endToEndCommitLatency = EmptyBag
  /\ msg = (Produced :> 1)
  /\ ev = NoEvent
  /\ CacheIdle /\ PopIdle /\ StartIdle /\ BucketIdle

ReplayNext ==
  \/ \E m \in BagToSet(msg), p \in Partitions, d \in Durations : Ack(m, p, d)
  \/ \E m \in BagToSet(msg), p \in Partitions, d \in Durations : Roundtrip(m, p, d)
  \/ \E m \in BagToSet(msg), p \in Partitions, d \in Durations : OffsetCommit(m, p, d)
  \/ \E m \in BagToSet(msg), p \in Partitions, d \in Durations : RoundtripReplay(m, p, d)

ReplaySpec == ReplayInit /\ [][ReplayNext]_vars

\* ------------------------------------------- Start, ensureCompatibility
Timeout == 15                    \* context.WithTimeout(ctx, 15*time.Second)
DescribeLogDirsKey == 35         \* kmsg.NewDescribeLogDirsRequest().Key()
ApiKeys == {18, DescribeLogDirsKey}
MaxVersions == {0, 3}
\* An ApiVersions response: the keys the broker supports, each listed once
\* with its max version.
Responses == {r \in SUBSET (ApiKeys \X MaxVersions) :
                \A e, f \in r : e[1] = f[1] => e = f}

\* fmt.Errorf("<text>: %w", err): an error is the chain of its texts.
Wrap(text, err) == <<text>> \o err

\* kversion.FromApiVersionsResponse: key -> max version, of the listed keys.
FromApiVersionsResponse(resp) ==
  [k \in {e[1] : e \in resp} |-> (CHOOSE e \in resp : e[1] = k)[2]]

\* A version set in which every key is taken to be there.
HasKey_always(vs, k) == TRUE

\* A version set in which no key is taken to be there.
HasKey_never(vs, k) == FALSE

\* versions.HasKey(k.Key())
HasKey(vs, k) == k \in DOMAIN vs

\* A Start that goes on whatever ensureCompatibility returned.
Aborts_never(err) == FALSE

\* Start: if err != nil { return fmt.Errorf(...) }
Aborts(err) == err # Nil

\* A Start that consumes the offsets topic in every scrape mode.
ScrapesOffsetsTopic_always(cfg) == TRUE

\* Start: s.Cfg.ConsumerGroups.ScrapeMode == ConsumerGroupScrapeModeOffsetsTopic
ScrapesOffsetsTopic(cfg) == cfg.ScrapeMode = "offsetsTopic"

\* Start calls ensureCompatibility, which makes its context and sends the
\* ApiVersions request.
Start ==
  /\ pc = "idle"
  /\ pc' = "query"
  /\ UNCHANGED <<elapsed, query, versions, gateErr, startErr, launched, cfg0>>
  /\ UNCHANGED <<Cfg, e2eVars, cacheVars, popVars, bucketVars>>

\* A second passes while the request is out.
GateTick ==
  /\ pc = "query"
  /\ elapsed < Timeout
  /\ elapsed' = elapsed + 1
  /\ UNCHANGED <<pc, query, versions, gateErr, startErr, launched, cfg0>>
  /\ UNCHANGED <<Cfg, e2eVars, cacheVars, popVars, bucketVars>>

\* GetAPIVersions returns a response before the context's deadline.
GetAPIVersionsOk(resp) ==
  /\ pc = "query"
  /\ elapsed < Timeout
  /\ query' = "ok"
  /\ versions' = FromApiVersionsResponse(resp)
  /\ pc' = "check"
  /\ UNCHANGED <<elapsed, gateErr, startErr, launched, cfg0>>
  /\ UNCHANGED <<Cfg, e2eVars, cacheVars, popVars, bucketVars>>

\* GetAPIVersions fails, or the deadline of the context passes:
\*   return fmt.Errorf("kafka api versions couldn't be fetched: %w", err)
GetAPIVersionsErr ==
  /\ pc = "query"
  /\ query' = IF elapsed < Timeout THEN "failed" ELSE "timeout"
  /\ gateErr' = Wrap("kafka api versions couldn't be fetched",
                     IF elapsed < Timeout THEN <<"request failed">>
                     ELSE <<"context deadline exceeded">>)
  /\ pc' = "gateReturned"
  /\ UNCHANGED <<elapsed, versions, startErr, launched, cfg0>>
  /\ UNCHANGED <<Cfg, e2eVars, cacheVars, popVars, bucketVars>>

\* A gate that assigns the flag from the response instead of only clearing it.
ensureCompatibility_assigns ==
  /\ pc = "check"
  /\ Cfg' = [Cfg EXCEPT !.LogDirsEnabled = HasKey(versions, DescribeLogDirsKey)]
  /\ gateErr' = Nil
  /\ pc' = "gateReturned"
  /\ UNCHANGED <<elapsed, query, versions, startErr, launched, cfg0>>
  /\ UNCHANGED <<e2eVars, cacheVars, popVars, bucketVars>>

\* ensureCompatibility after the response: Check Describe Log Dirs.
ensureCompatibility ==
  /\ pc = "check"
  /\ Cfg' = IF Cfg.LogDirsEnabled /\ ~HasKey(versions, DescribeLogDirsKey)
            THEN [Cfg EXCEPT !.LogDirsEnabled = FALSE]
            ELSE Cfg
  /\ gateErr' = Nil
  /\ pc' = "gateReturned"
  /\ UNCHANGED <<elapsed, query, versions, startErr, launched, cfg0>>
  /\ UNCHANGED <<e2eVars, cacheVars, popVars, bucketVars>>

\* Start after ensureCompatibility returned.
StartChecksErr ==
  /\ pc = "gateReturned"
  /\ IF Aborts(gateErr)
     THEN /\ startErr' = Wrap("failed to check feature compatibility against Kafka",
                              gateErr)
          /\ pc' = "returned"
     ELSE /\ pc' = "scrape"
          /\ UNCHANGED startErr
  /\ UNCHANGED <<elapsed, query, versions, gateErr, launched, cfg0>>
  /\ UNCHANGED <<Cfg, e2eVars, cacheVars, popVars, bucketVars>>

\* if ScrapeMode == offsetsTopic { go s.startConsumingOffsets(ctx) }
StartScrape ==
  /\ pc = "scrape"
  /\ launched' = IF ScrapesOffsetsTopic(Cfg)
                 THEN [launched EXCEPT !.offsets = @ + 1]
                 ELSE launched
  /\ pc' = "endToEnd"
  /\ UNCHANGED <<elapsed, query, versions, gateErr, startErr, cfg0>>
  /\ UNCHANGED <<Cfg, e2eVars, cacheVars, popVars, bucketVars>>

\* if s.Cfg.EndToEnd.Enabled { go s.initEndToEnd(ctx) }; return nil
StartEndToEnd ==
  /\ pc = "endToEnd"
  /\ launched' = IF Cfg.EndToEndEnabled
                 THEN [launched EXCEPT !.endToEnd = @ + 1]
                 ELSE launched
  /\ startErr' = Nil
  /\ pc' = "returned"
  /\ UNCHANGED <<elapsed, query, versions, gateErr, cfg0>>
  /\ UNCHANGED <<Cfg, e2eVars, cacheVars, popVars, bucketVars>>

StartInit ==
  /\ Cfg \in [LogDirsEnabled : BOOLEAN, ScrapeMode : {"offsetsTopic", "adminApi"},
              EndToEndEnabled : BOOLEAN, AckSla : {1}, RoundtripSla : {1},
              CommitSla : {1}]
  /\ StartIdle /\ BucketIdle
  /\ CacheIdle /\ PopIdle /\ E2EIdle

StartNext ==
  \/ Start
  \/ GateTick
  \/ \E resp \in Responses : GetAPIVersionsOk(resp)
  \/ GetAPIVersionsErr
  \/ ensureCompatibility
  \/ StartChecksErr
  \/ StartScrape
  \/ StartEndToEnd

StartSpec == StartInit /\ [][StartNext]_vars

\* ------------------------------------------------ createHistogramBuckets
\* A time.Duration is a whole number of ticks; a bucket's upper bound, a
\* float64 in seconds, is kept as the duration it stands for (0.005 s is
\* 5 ms; doubling a float64 is exact).
Latencies == 0..(MaxLatency * Millisecond)

\* int on a 32-bit build; the conversion of a float64 that int cannot hold
\* is implementation-specific: the builds give the least or the greatest int.
MaxInt == 2147483647
MinInt == -MaxInt - 1
IntOfNegInf == {MinInt, MaxInt}

\* a + b in int, wrapping around (b >= 0).
AddInt(a, b) == IF a > MaxInt - b THEN MinInt + (b - (MaxInt - a) - 1) ELSE a + b

\* time.Duration.Milliseconds(): the whole milliseconds.
Milliseconds(d) == d \div Millisecond

\* A quotient that is rounded up.
MillisOverTen_roundsUp(d) == (Milliseconds(d) + 9) \div 10

\* maxLatency.Milliseconds() / 10, an integer division
MillisOverTen(d) == Milliseconds(d) \div 10

\* math.Logb(float64(x)) for x >= 0: the binary exponent of x, -Inf for 0.
RECURSIVE Log2(_)
Log2(x) == IF x < 2 THEN 0 ELSE 1 + Log2(x \div 2)
Logb(x) == IF x = 0 THEN [negInf |-> TRUE, val |-> 0] ELSE Finite(Log2(x))

\* int(f): the values the conversion can give.
IntOf(f) == IF f.negInf THEN IntOfNegInf ELSE {f.val}

\* A count that is one short.
CountOf_plusTwo(n) == AddInt(n, 2)

\* count := int(latencyCount) + 3
CountOf(n) == AddInt(n, 3)

\* prometheus.ExponentialBuckets(start, factor, count), for count >= 1:
\* start, start*factor, ... (count of them).
RECURSIVE ExponentialBuckets(_, _, _)
ExponentialBuckets(start, factor, n) ==
  IF n = 1 THEN <<start>>
  ELSE <<start>> \o ExponentialBuckets(start * factor, factor, n - 1)

\* latencyCount := math.Logb(float64(maxLatency.Milliseconds() / 10))
\* count := int(latencyCount) + 3
createHistogramBuckets ==
  /\ bpc = "call"
  /\ latencyCount' = Logb(MillisOverTen(maxLatency))
  /\ \E n \in IntOf(latencyCount') : count' = CountOf(n)
  /\ bpc' = "buckets"
  /\ UNCHANGED <<maxLatency, bucket>>
  /\ UNCHANGED <<Cfg, e2eVars, cacheVars, popVars, startVars>>

\* bucket := prometheus.ExponentialBuckets(0.005, 2, count); return bucket
createHistogramBucketsReturn ==
  /\ bpc = "buckets"
  /\ count >= 1
  /\ bucket' = ExponentialBuckets(5 * Millisecond, 2, count)
  /\ bpc' = "returned"
  /\ UNCHANGED <<maxLatency, latencyCount, count>>
  /\ UNCHANGED <<Cfg, e2eVars, cacheVars, popVars, startVars>>

\* prometheus.ExponentialBuckets panics when count < 1.
createHistogramBucketsPanic ==
  /\ bpc = "buckets"
  /\ count < 1
  /\ bpc' = "panicked"
  /\ UNCHANGED <<maxLatency, latencyCount, count, bucket>>
  /\ UNCHANGED <<Cfg, e2eVars, cacheVars, popVars, startVars>>

BucketInit ==
  /\ maxLatency \in Latencies
  /\ latencyCount = Finite(0)
  /\ count = 0
  /\ bucket = <<>>
  /\ bpc = "call"
  /\ Cfg = DefaultCfg /\ E2EIdle /\ CacheIdle /\ PopIdle
  /\ pc = "idle" /\ elapsed = 0 /\ query = "none" /\ versions = <<>>
  /\ gateErr = Nil /\ startErr = Nil
  /\ launched = [offsets |-> 0, endToEnd |-> 0] /\ cfg0 = Cfg

BucketNext ==
  \/ createHistogramBuckets
  \/ createHistogramBucketsReturn
  \/ createHistogramBucketsPanic

BucketSpec == BucketInit /\ [][BucketNext]_vars

\* ----------------------------------------------------------------- claims
\* No setCachedItem of key k is between its spawn and its map write.
Installed(k) == \A c \in Clients : ~(client[c].pc = "setWrite" /\ client[c].key = k)

\* C1: when a key is Set again while the expiry of an earlier Set of it is
\* still to come, the earlier expiry does not remove the newer value: the
\* newer value is in the map for as long as its own ttl has not elapsed.
C1_NewerValueSurvives ==
  \A k \in Keys :
    (latest[k].renewed /\ now < latest[k].deadline /\ Installed(k))
      => cache[k] = latest[k].val

\* C3: a Get made while the ttl of the last Set of its key has not elapsed
\* returns that Set's value, found.
C3_GetBeforeTtlFinds ==
  \A c \in Clients :
    (client[c].pc = "getRUnlock" /\ client[c].exp # NoVal)
      => (client[c].found /\ client[c].ret = client[c].exp)

\* The GetOrPopulate callers of key k.
CallersOf(k) == {c \in DOMAIN client : client[c].op = "gop" /\ client[c].key = k}
AllDone == \A c \in DOMAIN client : client[c].pc = "done"

Handles(kind) == ev'.n = ev.n + 1 /\ ev'.kind = kind
\* Histogram hist gains exactly one observation, and it is d ticks in seconds.
ObservesOnce(hist, d) ==
  /\ Observations(hist') = Observations(hist) + 1
  /\ \E x \in BagToSet(hist') :
       /\ x[1] * Second + x[2] = d /\ x[2] < Second
       /\ CopiesIn(x, hist') = CopiesIn(x, hist) + 1

\* C4: a roundtrip event with duration d > RoundtripSLA changes neither the
\* received counter nor the roundtrip histogram; one with d <= RoundtripSLA
\* (d equal to the SLA included) adds one to the counter and records exactly
\* one observation of d.
C4_RoundtripGate ==
  [][Handles("roundtrip") =>
       IF ev'.d > Cfg.RoundtripSla
       THEN /\ endToEndMessagesReceived' = endToEndMessagesReceived
            /\ endToEndRoundtripLatency' = endToEndRoundtripLatency
       ELSE /\ endToEndMessagesReceived' = endToEndMessagesReceived + 1
            /\ ObservesOnce(endToEndRoundtripLatency, ev'.d)]_vars

\* A roundtrip exactly on the SLA was counted.
C4_Witness ==
  /\ ev.kind = "roundtrip" /\ ev.d = Cfg.RoundtripSla
  /\ endToEndMessagesReceived >= 1

\* C5: every offset-commit event records exactly one observation of its
\* duration d in the commit histogram, whatever the SLA, and adds one to the
\* committed counter if and only if d <= CommitSLA.
C5_CommitAlwaysObserved ==
  [][Handles("commit") =>
       /\ ObservesOnce(endToEndCommitLatency, ev'.d)
       /\ endToEndMessagesCommitted' =
            endToEndMessagesCommitted + (IF ev'.d <= Cfg.CommitSla THEN 1 ELSE 0)]_vars

\* A commit beyond the SLA was observed and not counted.
C5_Witness ==
  /\ ev.kind = "commit" /\ ev.d > Cfg.CommitSla
  /\ Observations(endToEndCommitLatency) = 1
  /\ endToEndMessagesCommitted = 0

\* C6: the committed counter counts matching messages only: it never exceeds
\* the number of messages committed within CommitSLA whose roundtrip matched.
C6_CommittedOnlyMatching ==
  endToEndMessagesCommitted
    <= CopiesIn([stage |-> "Committed", rt |-> "matched"], msg)

\* C7: every ack event, whatever its duration d is against AckSLA, adds one
\* to the acked counter and records exactly one observation of d.
C7_AckUnconditional ==
  [][Handles("ack") =>
       /\ endToEndMessagesAcked' = endToEndMessagesAcked + 1
       /\ ObservesOnce(endToEndAckLatency, ev'.d)]_vars

\* An ack beyond the SLA was counted.
C7_Witness ==
  /\ ev.kind = "ack" /\ ev.d > Cfg.AckSla
  /\ endToEndMessagesAcked >= 1

\* ensureCompatibility has returned.
GateReturned == pc \in {"gateReturned", "scrape", "endToEnd", "returned"}
NoneLaunched == launched = [offsets |-> 0, endToEnd |-> 0]

\* C8: when the ApiVersions request succeeds with a version set that lacks
\* the DescribeLogDirs key and LogDirs.Enabled was true, then once
\* ensureCompatibility has returned LogDirs.Enabled is false and the error is
\* nil, and Start returns nil.
C8_GateDisablesLogDirs ==
  (GateReturned /\ query = "ok" /\ cfg0.LogDirsEnabled
   /\ DescribeLogDirsKey \notin DOMAIN versions)
    => /\ ~Cfg.LogDirsEnabled
       /\ gateErr = Nil
       /\ pc = "returned" => startErr = Nil

\* Start returned nil after the gate switched LogDirs off.
C8_Witness ==
  /\ pc = "returned" /\ startErr = Nil
  /\ cfg0.LogDirsEnabled /\ ~Cfg.LogDirsEnabled
  /\ DescribeLogDirsKey \notin DOMAIN versions

\* C9: Start returns a non-nil error, wrapping the gate's, if and only if the
\* ApiVersions request failed or ran into its timeout; then the configuration
\* is as it was and no further startup step was taken.
C9_StartFailsIffQueryFails ==
  /\ pc = "returned" => (startErr # Nil <=> query \in {"failed", "timeout"})
  /\ query \in {"failed", "timeout"}
       => /\ pc \in {"gateReturned", "returned"}
          /\ Cfg = cfg0
          /\ NoneLaunched
          /\ pc = "returned"
               => /\ Len(startErr) = 3
                  /\ startErr[1] = "failed to check feature compatibility against Kafka"
                  /\ SubSeq(startErr, 2, 3) = gateErr

\* Start returned the wrapped error of a request that timed out.
C9_Witness ==
  /\ pc = "returned" /\ query = "timeout" /\ startErr # Nil

\* C10: no background task is launched before the gate has completed
\* successfully; each is launched at most once, and only when its condition
\* holds (scrape mode offsets-topic, EndToEnd.Enabled).
C10_TasksAfterGate ==
  /\ launched.offsets <= 1 /\ launched.endToEnd <= 1
  /\ ~NoneLaunched => (query = "ok" /\ gateErr = Nil /\ pc \in {"endToEnd", "returned"})
  /\ launched.offsets = 1 => Cfg.ScrapeMode = "offsetsTopic"
  /\ launched.endToEnd = 1 => Cfg.EndToEndEnabled

\* Start returned with both background tasks launched.
C10_Witness ==
  /\ pc = "returned" /\ launched.offsets = 1 /\ launched.endToEnd = 1

\* C11: once LogDirs.Enabled is false (forced by the gate or configured so)
\* no step sets it back to true, and the gate runs once per Start: after
\* ensureCompatibility has returned, Start never goes back into it.
C11_DisabledStaysDisabled ==
  [][/\ ~Cfg.LogDirsEnabled => ~Cfg'.LogDirsEnabled
     /\ GateReturned => GateReturned'
     /\ pc = "check" => pc' = "gateReturned"]_vars

\* Start went on to its launches with the flag the gate had forced to false.
C11_Witness ==
  /\ cfg0.LogDirsEnabled /\ ~Cfg.LogDirsEnabled
  /\ pc = "endToEnd" /\ gateErr = Nil

\* C20: a step changes the configuration only in the gate, only after a
\* successful query whose versions lack the DescribeLogDirs key, and only by
\* taking LogDirs.Enabled from true to false; with the key there, the flag
\* already false or the query failed, the gate leaves the configuration as
\* it was.
C20_GateFrame ==
  [][/\ Cfg' # Cfg
          => /\ pc = "check" /\ query = "ok"
             /\ DescribeLogDirsKey \notin DOMAIN versions
             /\ Cfg.LogDirsEnabled
             /\ Cfg' = [Cfg EXCEPT !.LogDirsEnabled = FALSE]
     /\ (GateReturned' /\ (\/ query' # "ok"
                           \/ DescribeLogDirsKey \in DOMAIN versions'
                           \/ ~cfg0'.LogDirsEnabled))
          => Cfg' = cfg0']_vars

\* The gate returned with the key there and the flag still true.
C20_Witness ==
  /\ pc = "gateReturned" /\ query = "ok"
  /\ DescribeLogDirsKey \in DOMAIN versions
  /\ cfg0.LogDirsEnabled /\ Cfg = cfg0

C19_CountersMatchHistograms ==
  [][/\ endToEndMessagesAcked' = Observations(endToEndAckLatency')
     /\ endToEndMessagesReceived' = Observations(endToEndRoundtripLatency')
     /\ endToEndMessagesCommitted' <= Observations(endToEndCommitLatency')
     /\ endToEndMessagesAcked' >= endToEndMessagesAcked
     /\ endToEndMessagesReceived' >= endToEndMessagesReceived
     /\ endToEndMessagesCommitted' >= endToEndMessagesCommitted
     /\ Handles("ack")
          => UNCHANGED <<endToEndMessagesReceived, endToEndMessagesCommitted,
                         endToEndRoundtripLatency, endToEndCommitLatency>>
     /\ Handles("roundtrip")
          => UNCHANGED <<endToEndMessagesAcked, endToEndMessagesCommitted,
                         endToEndAckLatency, endToEndCommitLatency>>
     /\ Handles("commit")
          => UNCHANGED <<endToEndMessagesAcked, endToEndMessagesReceived,
                         endToEndAckLatency, endToEndRoundtripLatency>>]_vars

\* Every counter has counted, and a commit beyond its SLA was observed only.
C19_Witness ==
  /\ endToEndMessagesAcked = 2 /\ endToEndMessagesReceived >= 1
  /\ endToEndMessagesCommitted = 1
  /\ Observations(endToEndCommitLatency) = 2

\* C15: a roundtrip event of a message that already matched, delivered again
\* with a duration within the SLA, counts as a new observation: the received
\* counter goes up by one and the roundtrip histogram gains one observation
\* of the duration; beyond the SLA it is dropped like any other.
C15_ReplayCountsAgain ==
  [][(Handles("roundtrip") /\ ev'.rt = "matched")
       => IF ev'.d <= Cfg.RoundtripSla
          THEN /\ endToEndMessagesReceived' = endToEndMessagesReceived + 1
               /\ ObservesOnce(endToEndRoundtripLatency, ev'.d)
          ELSE /\ endToEndMessagesReceived' = endToEndMessagesReceived
               /\ endToEndRoundtripLatency' = endToEndRoundtripLatency]_vars

\* A replay within the SLA was counted: more receipts than matched messages.
C15_Witness ==
  /\ ev.kind = "roundtrip" /\ ev.rt = "matched" /\ ev.d <= Cfg.RoundtripSla
  /\ endToEndMessagesReceived
       > CopiesIn([stage |-> "RoundtripMatched", rt |-> "matched"], msg)
         + CopiesIn([stage |-> "Committed", rt |-> "matched"], msg)
         + CopiesIn([stage |-> "CommitDropped", rt |-> "matched"], msg)
  /\ Observations(endToEndRoundtripLatency) = endToEndMessagesReceived

\* The goroutines inside a write of the map, and those inside a read.
Writers ==
  Cardinality({c \in Clients : client[c].pc = "setWrite"})
    + CopiesIn([st |-> "delUnlock", key |-> "k1", timeout |-> 0, wakeAt |-> 0], tasks)
    + CopiesIn([st |-> "delUnlock", key |-> "k2", timeout |-> 0, wakeAt |-> 0], tasks)
Readers == {c \in Clients : client[c].pc = "getRUnlock"}

\* C17: a write of the map never overlaps another write or a read; the map
\* changes only in a step of the goroutine that holds the write lock; and
\* the lock is held by goroutines inside their map access only, never by an
\* expiry goroutine that has not finished its sleep.
C17_MapAccessUnderLock ==
  [][/\ Writers' <= 1
     /\ Writers' = 1 => Readers' = {}
     /\ cache' # cache => (Writers = 1 \/ Writers' = 1)
     /\ (cacheLock'.w # None) <=> (Writers' = 1)
     /\ cacheLock'.r = {C(c) : c \in Readers'}]_vars

\* A Set is inside its write while an expiry goroutine sleeps and a Get waits.
C17_Witness ==
  /\ Writers = 1 /\ cacheLock.w = C(1)
  /\ client[2].pc = "idle"
  /\ \E t \in BagToSet(tasks) : t.st = "sleeping" /\ t.wakeAt > now

\* C18: every key in the map has an expiry goroutine of that key that has
\* not deleted yet, so the deletion of a Set never runs before the Set wrote
\* its value (a ttl of 0 included); and under a fair scheduler, once the Sets
\* have stopped, the map is empty in the end and stays so.
C18_PresentKeyHasExpiry ==
  /\ [](\A k \in Keys : cache[k] # NoVal => Pending(k) # {})
  /\ <>[](\A k \in Keys : cache[k] = NoVal)

\* A value set with ttl 0 is in the map, its expiry still to run.
C18_Witness ==
  \E k \in Keys :
    /\ cache[k] # NoVal
    /\ \A c \in Clients : client[c].pc = "idle"
    /\ \A t \in BagToSet(tasks) : t.key = k /\ t.timeout = 0

\* createHistogramBuckets has computed its count.
Counted == bpc \in {"buckets", "returned", "panicked"}

\* C12: for maxLatency >= 20 ms createHistogramBuckets returns buckets that
\* start at 5 ms (0.005 s), each twice the one before and so strictly
\* increasing, the last one at least maxLatency.
C12_BucketsCoverMaxLatency ==
  maxLatency >= 20 * Millisecond
    => /\ bpc # "panicked"
       /\ bpc = "returned"
            => /\ Len(bucket) >= 1
               /\ bucket[1] = 5 * Millisecond
               /\ \A i \in 1..(Len(bucket) - 1) :
                    bucket[i + 1] = 2 * bucket[i] /\ bucket[i + 1] > bucket[i]
               /\ bucket[Len(bucket)] >= maxLatency

\* Buckets were returned for a latency just below 40 ms.
C12_Witness ==
  /\ bpc = "returned"
  /\ maxLatency = 40 * Millisecond - 1
  /\ Len(bucket) = 4

\* C13: for maxLatency below 20 ms (below 10 ms and zero included) the count
\* is at least 1 and createHistogramBuckets returns.
C13_SmallLatencyCountPositive ==
  (maxLatency < 20 * Millisecond /\ Counted)
    => (count >= 1 /\ bpc # "panicked")

\* The largest e with 10 * 2^e <= ms: floor(log2(ms / 10)) on the exact quotient.
ExactFloorLog2(ms) ==
  CHOOSE e \in 0..Log2(ms) : 10 * 2^e <= ms /\ ms < 10 * 2^(e + 1)

\* C16: for a maxLatency of at least 10 whole milliseconds the count equals
\* floor(log2(ms / 10)) + 3 on the exact quotient: dividing as integers
\* before the logarithm changes nothing.
C16_IntegerDivisionKeepsCount ==
  (Milliseconds(maxLatency) >= 10 /\ Counted)
    => count = ExactFloorLog2(Milliseconds(maxLatency)) + 3

\* The count of a latency whose quotient by 10 ms is no whole number.
C16_Witness ==
  /\ Counted
  /\ Milliseconds(maxLatency) = 39
  /\ count = 4

=============================================================================
